---- MODULE Spec2Model ----
(***************************************************************************)
(* tiny-game-loop: the fixed-timestep scheduler (src/src/lib.rs, GameLoop  *)
(* and UpdateResult) and the per-frame input tracker (src/src/input.rs,    *)
(* Input).  Durations are counted in whole milliseconds.                   *)
(***************************************************************************)
EXTENDS Integers, Sequences, FiniteSets

VARIABLES
    \* GameLoop (lib.rs:9-16)
    target_frame_time, max_frame_time, accumulated_time,
    total_num_updates, total_time_passed,
    \* the UpdateResult returned by the last GameLoop::update ("none" before)
    result,
    \* history: one record per GameLoop::update call that returned, in call
    \* order
    ticks,
    \* the UpdateResult::run / run_result call in progress or last finished
    run,
    \* TRUE when a call of GameLoop::update is in its drain loop (lib.rs:74-77)
    \* and cannot leave it
    inUpdate,
    \* Input (input.rs:66-73)
    mods, physical_keys, logical_keys, mouse_buttons, mouse_pos, mouse_scroll,
    \* history: the last operation on the Input
    lastOp

loopVars == <<target_frame_time, max_frame_time, accumulated_time,
              total_num_updates, total_time_passed, result, ticks, run,
              inUpdate>>
inputVars == <<mods, physical_keys, logical_keys, mouse_buttons,
               mouse_pos, mouse_scroll, lastOp>>
vars == <<loopVars, inputVars>>

----------------------------------------------------------------------------
(* Bounds and input domains *)

\* number of GameLoop::update calls that return in one behaviour
MaxTicks == 3

\* (target_frame_time, max_frame_time) pairs given to GameLoop::new
Configs == { <<16, 100>>, <<16, 16>>, <<3, 5>>, <<3, 2>> }

\* the elapsed durations given to GameLoop::update
ElapsedSet == {0, 1, 3, 4, 16, 500}

\* the failures a per-step callback may return
Errors == {"e1", "e2"}

----------------------------------------------------------------------------
(* GameLoop *)

\* lib.rs:66-70 clamping to twice max_frame_time
ClampLoose(elapsed, max) == IF elapsed > max THEN max + max ELSE elapsed

\* lib.rs:66-70 with max_frame_time in both branches
ClampBug(elapsed, max) == IF elapsed > max THEN max ELSE max

\* lib.rs:66-70: the contribution of one elapsed measurement to the accumulator
Clamp(elapsed, max) == IF elapsed > max THEN max ELSE elapsed

RECURSIVE DrainGe(_, _, _)
\* lib.rs:74-77 with >= in place of >
DrainGe(acc, target, n) ==
    IF acc >= target
    THEN DrainGe(acc - target, target, n + 1)
    ELSE [accumulated_time |-> acc, num_updates |-> n]

\* lib.rs:74-77 with `if` in place of `while`
DrainOnce(acc, target, n) ==
    IF acc > target
    THEN [accumulated_time |-> acc - target, num_updates |-> n + 1]
    ELSE [accumulated_time |-> acc, num_updates |-> n]

RECURSIVE Drain(_, _, _)
\* lib.rs:72-77: the drain loop, n the count so far
Drain(acc, target, n) ==
    IF acc > target
    THEN Drain(acc - target, target, n + 1)
    ELSE [accumulated_time |-> acc, num_updates |-> n]

\* lib.rs:79 with = in place of +=
AddUpdatesOverwrites(total, n) == n

\* lib.rs:79: total_num_updates += num_updates
AddUpdates(total, n) == total + n

\* lib.rs:81-82: the quotient of two durations, kept as the pair it is made of
BlendingFactor(acc, target) == [num |-> acc, den |-> target]

\* lib.rs:74-77: whether the drain loop never ends. Durations are unsigned;
\* with target = 0 the body `accumulated_time -= target` leaves acc as it is,
\* so the condition acc > target stays true once it is true (num_updates
\* counts up without bound; for a target above 0 acc falls on every pass).
DrainDiverges(acc, target) == target = 0 /\ acc > 0

\* lib.rs:21-30 and the state before any call on the UpdateResult
LoopInit ==
    /\ \E c \in Configs :
          /\ target_frame_time = c[1]
          /\ max_frame_time = c[2]
    /\ accumulated_time = 0
    /\ total_num_updates = 0
    /\ total_time_passed = 0
    /\ result = "none"
    /\ ticks = << >>
    /\ run = [pc |-> "idle"]
    /\ inUpdate = FALSE

\* lib.rs:63-95, called as in the frame loop of lib.rs:50-61: between runs,
\* the UpdateResult of the frame before being dropped when the next is made
Update(elapsed) ==
    /\ run.pc # "loop"
    /\ ~inUpdate
    /\ Len(ticks) < MaxTicks
    /\ LET passed == total_time_passed + elapsed
           a == accumulated_time + Clamp(elapsed, max_frame_time)
       IN  IF DrainDiverges(a, target_frame_time)
           THEN \* lib.rs:64-77: the call stays in the drain loop
                /\ total_time_passed' = passed
                /\ accumulated_time' = a
                /\ inUpdate' = TRUE
                /\ UNCHANGED <<total_num_updates, result, ticks>>
           ELSE LET d == Drain(a, target_frame_time, 0)
                    total == AddUpdates(total_num_updates, d.num_updates)
                IN  /\ total_time_passed' = passed
                    /\ accumulated_time' = d.accumulated_time
                    /\ total_num_updates' = total
                    /\ result' =
                          [num_updates |-> d.num_updates,
                           total_num_updates |-> total,
                           frame_time |-> target_frame_time,
                           blending_factor |->
                               BlendingFactor(d.accumulated_time,
                                              target_frame_time),
                           total_time_passed |-> passed,
                           exit |-> FALSE]
                    /\ ticks' = Append(ticks,
                          [elapsed |-> elapsed,
                           num_updates |-> d.num_updates,
                           accumulated_before |-> accumulated_time])
                    /\ inUpdate' = FALSE
    /\ run' = [pc |-> "idle"]
    /\ UNCHANGED <<target_frame_time, max_frame_time>>

\* the durations given to the setters and, in the specification that has
\* them, to GameLoop::new
TimeValues == {0, 3, 16}

\* lib.rs:34-36
set_target_frame_time(time) ==
    /\ run.pc # "loop"
    /\ ~inUpdate
    /\ target_frame_time' = time
    /\ UNCHANGED <<max_frame_time, accumulated_time, total_num_updates,
                   total_time_passed, result, ticks, run, inUpdate>>

\* lib.rs:41-43
set_max_frame_time(time) ==
    /\ run.pc # "loop"
    /\ ~inUpdate
    /\ max_frame_time' = time
    /\ UNCHANGED <<target_frame_time, accumulated_time, total_num_updates,
                   total_time_passed, result, ticks, run, inUpdate>>

----------------------------------------------------------------------------
(* UpdateResult::run and UpdateResult::run_result *)

\* what one invocation of the caller's per-step callback may do: write the
\* public fields exit and num_updates of the UpdateResult it is handed
\* (lib.rs:102, 117) and, under run_result, return Ok(()) or a failure
Callbacks(s) ==
    [exit : BOOLEAN, num_updates : {s.num_updates, 0}, ret : {"ok"} \cup Errors]

\* lib.rs:130 / lib.rs:150: entering `for _i in 0..self.num_updates`; the
\* range, and so its end, is evaluated once, before the first iteration
EnterLoop(kind, s) ==
    [pc   |-> IF s.num_updates = 0 THEN "done" ELSE "loop",
     kind |-> kind,
     res0 |-> s,
     res  |-> s,
     end  |-> s.num_updates,
     i    |-> 0,
     log  |-> << >>,
     ret  |-> IF s.num_updates # 0 THEN [tag |-> "Pending"]
              ELSE IF kind = "run" THEN [tag |-> "Self", val |-> s]
              ELSE [tag |-> "Ok", val |-> s]]

\* lib.rs:130-136 with the loop bound read from self on every iteration
RunIterationRereads(r, cb) ==
    LET s1 == [r.res EXCEPT !.exit = cb.exit, !.num_updates = cb.num_updates]
        stop == s1.exit \/ r.i + 1 >= s1.num_updates
    IN  [r EXCEPT !.res = s1,
                  !.i = r.i + 1,
                  !.log = Append(r.log, [exit |-> s1.exit, ret |-> "ok"]),
                  !.pc = IF stop THEN "done" ELSE "loop",
                  !.ret = IF stop THEN [tag |-> "Self", val |-> s1]
                          ELSE [tag |-> "Pending"]]

\* lib.rs:130-138: one iteration of run's loop (the callback, then the exit
\* test), and the return of self when the loop ends
RunIteration(r, cb) ==
    LET s1 == [r.res EXCEPT !.exit = cb.exit, !.num_updates = cb.num_updates]
        stop == s1.exit \/ r.i + 1 = r.end
    IN  [r EXCEPT !.res = s1,
                  !.i = r.i + 1,
                  !.log = Append(r.log, [exit |-> s1.exit, ret |-> "ok"]),
                  !.pc = IF stop THEN "done" ELSE "loop",
                  !.ret = IF stop THEN [tag |-> "Self", val |-> s1]
                          ELSE [tag |-> "Pending"]]

\* lib.rs:150-158 with a failure that is noted but does not end the loop at once
RunResultIterationKeepsGoing(r, cb) ==
    LET s1 == [r.res EXCEPT !.exit = cb.exit, !.num_updates = cb.num_updates]
        stop == s1.exit \/ r.i + 1 = r.end
        failed == IF cb.ret # "ok" THEN [tag |-> "Err", err |-> cb.ret] ELSE r.ret
    IN  [r EXCEPT !.res = s1,
                  !.i = r.i + 1,
                  !.log = Append(r.log, [exit |-> s1.exit, ret |-> cb.ret]),
                  !.pc = IF stop THEN "done" ELSE "loop",
                  !.ret = IF failed.tag = "Err" THEN failed
                          ELSE IF stop THEN [tag |-> "Ok", val |-> s1]
                          ELSE [tag |-> "Pending"]]

\* lib.rs:150-158: one iteration of run_result's loop (the callback, `?`,
\* then the exit test), and the return of Ok(self) when the loop ends
RunResultIteration(r, cb) ==
    LET s1 == [r.res EXCEPT !.exit = cb.exit, !.num_updates = cb.num_updates]
        stop == s1.exit \/ r.i + 1 = r.end
    IN  IF cb.ret # "ok"
        THEN [r EXCEPT !.res = s1,
                       !.i = r.i + 1,
                       !.log = Append(r.log, [exit |-> s1.exit, ret |-> cb.ret]),
                       !.pc = "done",
                       !.ret = [tag |-> "Err", err |-> cb.ret]]
        ELSE [r EXCEPT !.res = s1,
                       !.i = r.i + 1,
                       !.log = Append(r.log, [exit |-> s1.exit, ret |-> "ok"]),
                       !.pc = IF stop THEN "done" ELSE "loop",
                       !.ret = IF stop THEN [tag |-> "Ok", val |-> s1]
                               ELSE [tag |-> "Pending"]]

\* the UpdateResult values a caller can hand to run / run_result: the one the
\* last update returned or the one the last run returned, with the public
\* field exit (lib.rs:117) as the caller left it
RunArgs ==
    LET held == (IF Len(ticks) > 0 THEN {result} ELSE {}) \cup
                (IF run.pc = "done" /\ run.ret.tag \in {"Self", "Ok"}
                 THEN {run.ret.val} ELSE {})
    IN  { [s EXCEPT !.exit = e] : s \in held, e \in BOOLEAN }

\* what the callback of the run in progress may do at its next invocation
StepCallbacks == IF run.pc = "loop" THEN Callbacks(run.res) ELSE {}

\* lib.rs:126-130: a call of run
CallRun(s) ==
    /\ run.pc # "loop"
    /\ Len(ticks) > 0
    /\ s \in RunArgs
    /\ run' = EnterLoop("run", s)
    /\ UNCHANGED <<target_frame_time, max_frame_time, accumulated_time,
                   total_num_updates, total_time_passed, result, ticks,
                   inUpdate>>

\* lib.rs:146-150: a call of run_result
CallRunResult(s) ==
    /\ run.pc # "loop"
    /\ Len(ticks) > 0
    /\ s \in RunArgs
    /\ run' = EnterLoop("run_result", s)
    /\ UNCHANGED <<target_frame_time, max_frame_time, accumulated_time,
                   total_num_updates, total_time_passed, result, ticks,
                   inUpdate>>

\* lib.rs:130-138: the next callback invocation of a run in progress
StepRun(cb) ==
    /\ run.pc = "loop"
    /\ run.kind = "run"
    /\ cb \in StepCallbacks
    /\ cb.ret = "ok"
    /\ run' = RunIteration(run, cb)
    /\ UNCHANGED <<target_frame_time, max_frame_time, accumulated_time,
                   total_num_updates, total_time_passed, result, ticks,
                   inUpdate>>

\* lib.rs:150-158: the next callback invocation of a run_result in progress
StepRunResult(cb) ==
    /\ run.pc = "loop"
    /\ run.kind = "run_result"
    /\ cb \in StepCallbacks
    /\ run' = RunResultIteration(run, cb)
    /\ UNCHANGED <<target_frame_time, max_frame_time, accumulated_time,
                   total_num_updates, total_time_passed, result, ticks,
                   inUpdate>>

----------------------------------------------------------------------------
(* Input *)

\* the identifiers of the three key spaces (input.rs:271-273)
PhysicalKeys == {"KeyA", "KeyB"}
LogicalKeys == {"Enter", "Tab"}
MouseButtons == {"Left"}

\* input.rs:12-29
ModFlags == {"lshift", "rshift", "lalt", "ralt",
             "lcontrol", "rcontrol", "lsuper", "rsuper"}

\* input.rs:11, 82, 92: KeyMods::default()
KeyModsDefault == [f \in ModFlags |-> FALSE]

\* the modifier snapshots, positions and scroll deltas events carry
ModsValues == {KeyModsDefault, [f \in ModFlags |-> f \in {"lshift", "rcontrol"}]}
PosValues == {<<0, 0>>, <<3, 4>>}
ScrollValues == {<<0, 0>>, <<1, -2>>}

\* input.rs:284, 296-304: the states an event carries
EventStates == {"Pressed", "Released"}

\* input.rs:279-293: what convert() yields, "None" standing for Option::None
\* (of convert() itself at input.rs:275 and of logical_key at input.rs:282)
Events ==
    [type : {"Key"}, physical_key : PhysicalKeys,
     logical_key : LogicalKeys \cup {"None"}, repeat : BOOLEAN,
     state : EventStates]
    \cup [type : {"Modifiers"}, mods : ModsValues]
    \cup [type : {"MouseMoved"}, pos : PosValues]
    \cup [type : {"MouseButton"}, button : MouseButtons, state : EventStates]
    \cup [type : {"MouseScroll"}, scroll : ScrollValues]
    \cup [type : {"None"}]

\* input.rs:83-85, 93-95: an empty FxHashMap
EmptyMap == [k \in {} |-> "Down"]

\* input.rs:249, 252, 257 with an insert that keeps an entry already there
InsertIfAbsent(m, k, v) ==
    [x \in DOMAIN m \cup {k} |-> IF x \in DOMAIN m THEN m[x] ELSE v]

\* FxHashMap::insert as used at input.rs:249, 252, 257
Insert(m, k, v) == [x \in DOMAIN m \cup {k} |-> IF x = k THEN v ELSE m[x]]

\* input.rs:47-49
is_pressed(state) == state = "Pressed"

\* input.rs:53-55 matching InputState::Down alone
is_any_down_only_held(state) == state = "Down"

\* input.rs:53-55
is_any_down(state) == state \in {"Pressed", "Down"}

\* input.rs:59-61
is_released(state) == state = "Released"

\* input.rs:125-129
is_physical_key_pressed(scancode) ==
    IF scancode \in DOMAIN physical_keys
    THEN is_pressed(physical_keys[scancode]) ELSE FALSE

\* input.rs:133-137
is_physical_key_down(scancode) ==
    IF scancode \in DOMAIN physical_keys
    THEN is_any_down(physical_keys[scancode]) ELSE FALSE

\* input.rs:141-145
is_physical_key_released(scancode) ==
    IF scancode \in DOMAIN physical_keys
    THEN is_released(physical_keys[scancode]) ELSE FALSE

\* input.rs:155-159
is_logical_key_pressed(key) ==
    IF key \in DOMAIN logical_keys
    THEN is_pressed(logical_keys[key]) ELSE FALSE

\* input.rs:163-167
is_logical_key_down(key) ==
    IF key \in DOMAIN logical_keys
    THEN is_any_down(logical_keys[key]) ELSE FALSE

\* input.rs:171-175
is_logical_key_released(key) ==
    IF key \in DOMAIN logical_keys
    THEN is_released(logical_keys[key]) ELSE FALSE

\* input.rs:185-189
is_mouse_button_pressed(button) ==
    IF button \in DOMAIN mouse_buttons
    THEN is_pressed(mouse_buttons[button]) ELSE FALSE

\* input.rs:193-197
is_mouse_button_down(button) ==
    IF button \in DOMAIN mouse_buttons
    THEN is_any_down(mouse_buttons[button]) ELSE FALSE

\* input.rs:201-205
is_mouse_button_released(button) ==
    IF button \in DOMAIN mouse_buttons
    THEN is_released(mouse_buttons[button]) ELSE FALSE

\* input.rs:80-89
InputInit ==
    /\ mods = KeyModsDefault
    /\ physical_keys = EmptyMap
    /\ logical_keys = EmptyMap
    /\ mouse_buttons = EmptyMap
    /\ mouse_pos = <<0, 0>>
    /\ mouse_scroll = <<0, 0>>
    /\ lastOp = "new"

\* input.rs:91-98 leaving the scroll delta as it was
clear_keeps_scroll ==
    /\ mods' = KeyModsDefault
    /\ physical_keys' = EmptyMap
    /\ logical_keys' = EmptyMap
    /\ mouse_buttons' = EmptyMap
    /\ mouse_pos' = <<0, 0>>
    /\ mouse_scroll' = mouse_scroll
    /\ lastOp' = "clear"

\* input.rs:91-98
clear ==
    /\ mods' = KeyModsDefault
    /\ physical_keys' = EmptyMap
    /\ logical_keys' = EmptyMap
    /\ mouse_buttons' = EmptyMap
    /\ mouse_pos' = <<0, 0>>
    /\ mouse_scroll' = <<0, 0>>
    /\ lastOp' = "clear"

\* input.rs:208-215 without the Pressed -> Down assignment
RetainKeepsPressed(m) ==
    [k \in {x \in DOMAIN m : m[x] # "Released"} |-> m[k]]

\* input.rs:208-215 keeping the Released entries as they are
RetainKeepsReleased(m) ==
    [k \in DOMAIN m |-> IF m[k] = "Pressed" THEN "Down" ELSE m[k]]

\* input.rs:208-215 (and 217-224, 226-233): the retain pass over one map
Retain(m) ==
    [k \in {x \in DOMAIN m : m[x] # "Released"} |->
        IF m[k] = "Pressed" THEN "Down" ELSE m[k]]

\* input.rs:207-234 with the scroll delta reset by the aging pass
update_keys_resets_scroll ==
    /\ physical_keys' = Retain(physical_keys)
    /\ logical_keys' = Retain(logical_keys)
    /\ mouse_buttons' = Retain(mouse_buttons)
    /\ mouse_scroll' = <<0, 0>>
    /\ lastOp' = "update_keys"
    /\ UNCHANGED <<mods, mouse_pos>>

\* input.rs:207-234
update_keys ==
    /\ physical_keys' = Retain(physical_keys)
    /\ logical_keys' = Retain(logical_keys)
    /\ mouse_buttons' = Retain(mouse_buttons)
    /\ lastOp' = "update_keys"
    /\ UNCHANGED <<mods, mouse_pos, mouse_scroll>>

\* input.rs:248 without the test of repeat
KeyTakesEffectAlways(repeat) == TRUE

\* input.rs:248: whether a Key event is acted on
KeyTakesEffect(repeat) == ~repeat

\* input.rs:236-267
process_event(event) ==
    /\ CASE event.type = "Modifiers" ->
              /\ mods' = event.mods
              /\ UNCHANGED <<physical_keys, logical_keys, mouse_buttons,
                             mouse_pos, mouse_scroll>>
         [] event.type = "Key" ->
              /\ IF KeyTakesEffect(event.repeat)
                 THEN /\ physical_keys' =
                             Insert(physical_keys, event.physical_key, event.state)
                      /\ logical_keys' =
                             IF event.logical_key # "None"
                             THEN Insert(logical_keys, event.logical_key, event.state)
                             ELSE logical_keys
                 ELSE UNCHANGED <<physical_keys, logical_keys>>
              /\ UNCHANGED <<mods, mouse_buttons, mouse_pos, mouse_scroll>>
         [] event.type = "MouseButton" ->
              /\ mouse_buttons' = Insert(mouse_buttons, event.button, event.state)
              /\ UNCHANGED <<mods, physical_keys, logical_keys,
                             mouse_pos, mouse_scroll>>
         [] event.type = "MouseMoved" ->
              /\ mouse_pos' = event.pos
              /\ UNCHANGED <<mods, physical_keys, logical_keys, mouse_buttons,
                             mouse_scroll>>
         [] event.type = "MouseScroll" ->
              /\ mouse_scroll' = event.scroll
              /\ UNCHANGED <<mods, physical_keys, logical_keys, mouse_buttons,
                             mouse_pos>>
         [] event.type = "None" ->
              UNCHANGED <<mods, physical_keys, logical_keys, mouse_buttons,
                          mouse_pos, mouse_scroll>>
    /\ lastOp' = IF event.type = "Key" /\ event.repeat THEN "key_repeat"
                 ELSE "process_event"

----------------------------------------------------------------------------
(* Specifications *)

Init == LoopInit /\ InputInit

LoopNext ==
    \/ \E elapsed \in ElapsedSet : Update(elapsed) /\ UNCHANGED inputVars
    \/ \E s \in RunArgs : CallRun(s) /\ UNCHANGED inputVars
    \/ \E s \in RunArgs : CallRunResult(s) /\ UNCHANGED inputVars
    \/ \E cb \in StepCallbacks : StepRun(cb) /\ UNCHANGED inputVars
    \/ \E cb \in StepCallbacks : StepRunResult(cb) /\ UNCHANGED inputVars

\* the scheduler and the driver of its results
SpecLoop == Init /\ [][LoopNext]_vars

\* lib.rs:21-30 with any two durations, zero included
CfgInit ==
    /\ target_frame_time \in TimeValues
    /\ max_frame_time \in TimeValues
    /\ accumulated_time = 0
    /\ total_num_updates = 0
    /\ total_time_passed = 0
    /\ result = "none"
    /\ ticks = << >>
    /\ run = [pc |-> "idle"]
    /\ inUpdate = FALSE
    /\ InputInit

CfgNext ==
    \/ \E elapsed \in ElapsedSet : Update(elapsed) /\ UNCHANGED inputVars
    \/ \E time \in TimeValues :
          set_target_frame_time(time) /\ UNCHANGED inputVars
    \/ \E time \in TimeValues :
          set_max_frame_time(time) /\ UNCHANGED inputVars

\* the scheduler with its setters, any configuration allowed
SpecCfg == CfgInit /\ [][CfgNext]_vars

InputNext ==
    \/ \E event \in Events : process_event(event) /\ UNCHANGED loopVars
    \/ update_keys /\ UNCHANGED loopVars
    \/ clear /\ UNCHANGED loopVars

\* the input tracker alone, beside one scheduler that is never called
InputOnlyInit ==
    /\ Init
    /\ <<target_frame_time, max_frame_time>> = <<16, 100>>

\* the input tracker
SpecInput == InputOnlyInit /\ [][InputNext]_vars

----------------------------------------------------------------------------
(* Properties of the scheduler *)

RECURSIVE SumElapsed(_)
\* the sum of the elapsed values of a sequence of ticks
SumElapsed(s) ==
    IF s = << >> THEN 0 ELSE s[1].elapsed + SumElapsed(Tail(s))

RECURSIVE SumSteps(_)
\* the sum of the num_updates (steps_to_run) values of a sequence of ticks
SumSteps(s) ==
    IF s = << >> THEN 0 ELSE s[1].num_updates + SumSteps(Tail(s))

\* the last call of update
LastTick == ticks[Len(ticks)]

\* C1 as stated: after every call of update, accumulated_time is strictly
\* less than target_frame_time (the blending factor lies in [0,1)).
C1_AccumulatedBelowTarget ==
    Len(ticks) > 0 =>
        /\ accumulated_time < target_frame_time
        /\ result.blending_factor.num < result.blending_factor.den

\* C1 as amended: after every call of update, accumulated_time is at most
\* target_frame_time, and the blending factor the call returns lies in [0,1].
C1_AccumulatedAtMostTarget ==
    Len(ticks) > 0 =>
        /\ accumulated_time >= 0
        /\ accumulated_time <= target_frame_time
        /\ result.blending_factor.num >= 0
        /\ result.blending_factor.num <= result.blending_factor.den

\* an update has drained at least one step and left exactly target_frame_time
C1_Witness ==
    /\ Len(ticks) > 0
    /\ result.num_updates > 0
    /\ accumulated_time = target_frame_time
    /\ result.blending_factor.num = result.blending_factor.den

\* every tick so far was of exactly 16ms, on a scheduler with a target of
\* 16ms and a maximum of at least 16ms
Only16msTicks ==
    /\ target_frame_time = 16
    /\ max_frame_time >= 16
    /\ \A k \in 1..Len(ticks) : ticks[k].elapsed = 16

\* C2 as stated: with a target of 16ms, ticks of exactly 16ms return
\* num_updates in the alternating pattern 0,1,0,1,...
C2_AlternatingPattern ==
    Only16msTicks =>
        \A k \in 1..Len(ticks) : ticks[k].num_updates = (k + 1) % 2

\* C2 as amended: with a target of 16ms, ticks of exactly 16ms return
\* num_updates 0 on the first tick and 1 on every later tick, each tick
\* leaving accumulated_time at 16ms.
C2_ZeroThenOnes ==
    Only16msTicks =>
        /\ \A k \in 1..Len(ticks) :
              ticks[k].num_updates = IF k = 1 THEN 0 ELSE 1
        /\ Len(ticks) > 0 => accumulated_time = 16

\* three ticks of 16ms have been made
C2_Witness ==
    /\ Only16msTicks
    /\ Len(ticks) >= 3
    /\ result.num_updates = 1

\* C4: a tick adds min(elapsed, max_frame_time) to the accumulator before
\* draining and the full elapsed to total_time_passed; with a target of
\* 16ms and a maximum of 100ms a first tick of 500ms returns 6 steps,
\* leaves 4ms accumulated and 500ms of total time.
C4_ClampedAccumulation ==
    Len(ticks) > 0 =>
        /\ accumulated_time + LastTick.num_updates * target_frame_time
              = LastTick.accumulated_before
                + (IF LastTick.elapsed > max_frame_time
                   THEN max_frame_time ELSE LastTick.elapsed)
        /\ total_time_passed = SumElapsed(ticks)
        /\ result.total_time_passed = total_time_passed
        /\ (target_frame_time = 16 /\ max_frame_time = 100
            /\ Len(ticks) = 1 /\ LastTick.elapsed = 500)
              => /\ result.num_updates = 6
                 /\ accumulated_time = 4
                 /\ total_time_passed = 500

\* the tick of 500ms on the 16ms/100ms scheduler has been made
C4_Witness ==
    /\ target_frame_time = 16
    /\ max_frame_time = 100
    /\ Len(ticks) = 1
    /\ LastTick.elapsed = 500
    /\ result.num_updates = 6

\* every tick so far was given the same elapsed value, at most max_frame_time
ConstantElapsed ==
    /\ Len(ticks) > 0
    /\ ticks[1].elapsed <= max_frame_time
    /\ \A k \in 1..Len(ticks) : ticks[k].elapsed = ticks[1].elapsed

\* C5: under a constant elapsed of at most max_frame_time, the sum of the
\* num_updates returned so far differs from
\* floor(total_time_passed / target_frame_time) by at most one.
C5_StepsTrackElapsed ==
    ConstantElapsed =>
        LET steps == SumSteps(ticks)
            whole == total_time_passed \div target_frame_time
        IN  /\ steps - whole <= 1
            /\ whole - steps <= 1

\* at least two equal ticks, a step run, and the two counts one apart
C5_Witness ==
    /\ ConstantElapsed
    /\ Len(ticks) >= 2
    /\ SumSteps(ticks) >= 1
    /\ (total_time_passed \div target_frame_time) - SumSteps(ticks) = 1

\* C8: run invokes the callback exactly num_updates times (num_updates as
\* it was when run was called) when no invocation leaves exit true, and
\* exactly k times when the k-th invocation is the first to leave exit true.
C8_RunInvocations ==
    (run.pc # "idle" /\ run.kind = "run") =>
        LET calls == Len(run.log)
        IN  /\ calls <= run.res0.num_updates
            /\ \A k \in 1..(calls - 1) : ~run.log[k].exit
            /\ run.pc = "loop" => calls < run.res0.num_updates
            /\ run.pc = "done" =>
                  IF calls > 0 /\ run.log[calls].exit
                  THEN run.ret = [tag |-> "Self", val |-> run.res]
                  ELSE /\ calls = run.res0.num_updates
                       /\ run.ret = [tag |-> "Self", val |-> run.res]

\* a run ended by its second or later invocation leaving exit true, with
\* steps left over
C8_Witness ==
    /\ run.pc = "done"
    /\ run.kind = "run"
    /\ Len(run.log) >= 2
    /\ run.log[Len(run.log)].exit
    /\ Len(run.log) < run.res0.num_updates

\* C9: run_result makes no invocation after one that failed and returns
\* that failure unchanged; with no failure it returns Ok(self) after
\* num_updates invocations, or fewer when an invocation left exit true.
C9_RunResultPropagates ==
    (run.pc # "idle" /\ run.kind = "run_result") =>
        LET calls == Len(run.log)
        IN  /\ calls <= run.res0.num_updates
            /\ \A k \in 1..(calls - 1) :
                  run.log[k].ret = "ok" /\ ~run.log[k].exit
            /\ run.pc = "loop" =>
                  /\ calls < run.res0.num_updates
                  /\ \A k \in 1..calls : run.log[k].ret = "ok"
            /\ run.pc = "done" =>
                  IF calls > 0 /\ run.log[calls].ret # "ok"
                  THEN run.ret = [tag |-> "Err", err |-> run.log[calls].ret]
                  ELSE /\ run.ret = [tag |-> "Ok", val |-> run.res]
                       /\ \/ calls = run.res0.num_updates
                          \/ calls > 0 /\ run.log[calls].exit

\* a run_result ended by the failure of its second or later invocation,
\* with steps left over
C9_Witness ==
    /\ run.pc = "done"
    /\ run.kind = "run_result"
    /\ Len(run.log) >= 2
    /\ run.ret.tag = "Err"
    /\ run.ret.err = run.log[Len(run.log)].ret
    /\ Len(run.log) < run.res0.num_updates

----------------------------------------------------------------------------
(* Properties of the input tracker *)

\* the six fields of Input that the queries read
inputFields == <<mods, physical_keys, logical_keys, mouse_buttons,
                 mouse_pos, mouse_scroll>>

\* C3: in each key space, a non-repeat Pressed event makes the key pressed
\* and down; update_keys turns a pressed key into one that is down and not
\* pressed and keeps a down key so; a Released event makes the key released
\* and not down; update_keys then removes it and all three queries are false.
C3_PressHoldRelease ==
    [][ /\ \A ev \in Events :
            /\ (ev.type = "Key" /\ ~ev.repeat /\ ev.state = "Pressed"
                /\ process_event(ev)) =>
                  /\ is_physical_key_pressed(ev.physical_key)'
                  /\ is_physical_key_down(ev.physical_key)'
                  /\ ev.logical_key # "None" =>
                        /\ is_logical_key_pressed(ev.logical_key)'
                        /\ is_logical_key_down(ev.logical_key)'
            /\ (ev.type = "Key" /\ ~ev.repeat /\ ev.state = "Released"
                /\ process_event(ev)) =>
                  /\ is_physical_key_released(ev.physical_key)'
                  /\ ~is_physical_key_down(ev.physical_key)'
                  /\ ev.logical_key # "None" =>
                        /\ is_logical_key_released(ev.logical_key)'
                        /\ ~is_logical_key_down(ev.logical_key)'
            /\ (ev.type = "MouseButton" /\ ev.state = "Pressed"
                /\ process_event(ev)) =>
                  /\ is_mouse_button_pressed(ev.button)'
                  /\ is_mouse_button_down(ev.button)'
            /\ (ev.type = "MouseButton" /\ ev.state = "Released"
                /\ process_event(ev)) =>
                  /\ is_mouse_button_released(ev.button)'
                  /\ ~is_mouse_button_down(ev.button)'
        /\ update_keys =>
            /\ \A k \in PhysicalKeys :
                  /\ is_physical_key_down(k) =>
                        /\ ~is_physical_key_pressed(k)'
                        /\ is_physical_key_down(k)'
                  /\ is_physical_key_released(k) =>
                        /\ k \notin DOMAIN physical_keys'
                        /\ ~is_physical_key_pressed(k)'
                        /\ ~is_physical_key_down(k)'
                        /\ ~is_physical_key_released(k)'
            /\ \A k \in LogicalKeys :
                  /\ is_logical_key_down(k) =>
                        /\ ~is_logical_key_pressed(k)'
                        /\ is_logical_key_down(k)'
                  /\ is_logical_key_released(k) =>
                        /\ k \notin DOMAIN logical_keys'
                        /\ ~is_logical_key_pressed(k)'
                        /\ ~is_logical_key_down(k)'
                        /\ ~is_logical_key_released(k)'
            /\ \A k \in MouseButtons :
                  /\ is_mouse_button_down(k) =>
                        /\ ~is_mouse_button_pressed(k)'
                        /\ is_mouse_button_down(k)'
                  /\ is_mouse_button_released(k) =>
                        /\ k \notin DOMAIN mouse_buttons'
                        /\ ~is_mouse_button_pressed(k)'
                        /\ ~is_mouse_button_down(k)'
                        /\ ~is_mouse_button_released(k)'
      ]_vars

\* after update_keys: a held key in each key space, and a key of each of the
\* keyboard spaces gone again
C3_Witness ==
    /\ lastOp = "update_keys"
    /\ is_physical_key_down("KeyA") /\ ~is_physical_key_pressed("KeyA")
    /\ is_logical_key_down("Enter") /\ ~is_logical_key_pressed("Enter")
    /\ is_mouse_button_down("Left") /\ ~is_mouse_button_pressed("Left")
    /\ "KeyB" \notin DOMAIN physical_keys
    /\ "Tab" \notin DOMAIN logical_keys

\* C6: a Key event with repeat set changes none of the three maps, the
\* modifiers, the mouse position or the scroll, whatever its state and
\* whatever the key's entry.
C6_RepeatIgnored ==
    [][ \A ev \in Events :
            (ev.type = "Key" /\ ev.repeat /\ process_event(ev))
                => UNCHANGED inputFields ]_vars

\* a repeat Key event has been processed while a key is held down
C6_Witness ==
    /\ lastOp = "key_repeat"
    /\ \E k \in PhysicalKeys :
          k \in DOMAIN physical_keys /\ physical_keys[k] = "Down"
    /\ \E k \in LogicalKeys :
          k \in DOMAIN logical_keys /\ logical_keys[k] = "Down"

\* what update_keys does to one map, m before and n after
AgedFrom(m, n, keys) ==
    /\ DOMAIN n \subseteq DOMAIN m
    /\ \A k \in keys :
          /\ (k \in DOMAIN m /\ m[k] \in {"Pressed", "Down"}) =>
                (k \in DOMAIN n /\ n[k] = "Down")
          /\ (k \in DOMAIN m /\ m[k] = "Released") => k \notin DOMAIN n
    /\ \A k \in DOMAIN n : n[k] = "Down"

\* C7: update_keys turns, in each of the three maps, Pressed into Down,
\* keeps Down, removes Released and creates no entry, so that right after
\* it every entry of every map is Down.
C7_AgingPass ==
    [][ update_keys =>
            /\ AgedFrom(physical_keys, physical_keys', PhysicalKeys)
            /\ AgedFrom(logical_keys, logical_keys', LogicalKeys)
            /\ AgedFrom(mouse_buttons, mouse_buttons', MouseButtons) ]_vars

\* after update_keys, with entries left in all three maps
C7_Witness ==
    /\ lastOp = "update_keys"
    /\ DOMAIN physical_keys = PhysicalKeys
    /\ DOMAIN logical_keys # {}
    /\ DOMAIN mouse_buttons # {}

\* C10: right after clear the three maps are empty, every query is false,
\* the modifiers are all false and position and scroll are (0,0), as after
\* new.
C10_ClearResets ==
    lastOp = "clear" =>
        /\ DOMAIN physical_keys = {}
        /\ DOMAIN logical_keys = {}
        /\ DOMAIN mouse_buttons = {}
        /\ \A k \in PhysicalKeys :
              /\ ~is_physical_key_pressed(k)
              /\ ~is_physical_key_down(k)
              /\ ~is_physical_key_released(k)
        /\ \A k \in LogicalKeys :
              /\ ~is_logical_key_pressed(k)
              /\ ~is_logical_key_down(k)
              /\ ~is_logical_key_released(k)
        /\ \A k \in MouseButtons :
              /\ ~is_mouse_button_pressed(k)
              /\ ~is_mouse_button_down(k)
              /\ ~is_mouse_button_released(k)
        /\ \A f \in ModFlags : ~mods[f]
        /\ mouse_pos = <<0, 0>>
        /\ mouse_scroll = <<0, 0>>

\* clear has been called
C10_Witness ==
    /\ lastOp = "clear"
    /\ DOMAIN physical_keys = {}
    /\ mouse_scroll = <<0, 0>>


\* C11: in every state of the tracker and for every key or button of each
\* key space, pressed implies down, released and down never hold together,
\* an absent entry answers false to all three queries, and down holds
\* exactly when the entry is Pressed or Down.
C11_QueriesConsistent ==
    /\ \A k \in PhysicalKeys :
          /\ is_physical_key_pressed(k) => is_physical_key_down(k)
          /\ ~(is_physical_key_released(k) /\ is_physical_key_down(k))
          /\ k \notin DOMAIN physical_keys =>
                /\ ~is_physical_key_pressed(k)
                /\ ~is_physical_key_down(k)
                /\ ~is_physical_key_released(k)
          /\ is_physical_key_down(k) <=>
                (k \in DOMAIN physical_keys
                 /\ physical_keys[k] \in {"Pressed", "Down"})
    /\ \A k \in LogicalKeys :
          /\ is_logical_key_pressed(k) => is_logical_key_down(k)
          /\ ~(is_logical_key_released(k) /\ is_logical_key_down(k))
          /\ k \notin DOMAIN logical_keys =>
                /\ ~is_logical_key_pressed(k)
                /\ ~is_logical_key_down(k)
                /\ ~is_logical_key_released(k)
          /\ is_logical_key_down(k) <=>
                (k \in DOMAIN logical_keys
                 /\ logical_keys[k] \in {"Pressed", "Down"})
    /\ \A k \in MouseButtons :
          /\ is_mouse_button_pressed(k) => is_mouse_button_down(k)
          /\ ~(is_mouse_button_released(k) /\ is_mouse_button_down(k))
          /\ k \notin DOMAIN mouse_buttons =>
                /\ ~is_mouse_button_pressed(k)
                /\ ~is_mouse_button_down(k)
                /\ ~is_mouse_button_released(k)
          /\ is_mouse_button_down(k) <=>
                (k \in DOMAIN mouse_buttons
                 /\ mouse_buttons[k] \in {"Pressed", "Down"})

\* a pressed, a held and a released entry and an absent key, all at once
C11_Witness ==
    /\ is_physical_key_pressed("KeyA")
    /\ is_physical_key_released("KeyB")
    /\ is_logical_key_down("Enter") /\ ~is_logical_key_pressed("Enter")
    /\ "Tab" \notin DOMAIN logical_keys
    /\ is_mouse_button_pressed("Left")


\* the keys that have an entry in map n and had none in map m
Created(m, n) == DOMAIN n \ DOMAIN m

\* the step is process_event of a non-repeat Key event for physical key k
\* with a state in `states`, and the new entry of k carries that state
KeyEventFor(k, states) ==
    \E ev \in Events :
        /\ ev.type = "Key" /\ ~ev.repeat
        /\ ev.physical_key = k /\ ev.state \in states
        /\ process_event(ev)
        /\ physical_keys'[k] = ev.state

\* the same for logical key k
LogicalKeyEventFor(k, states) ==
    \E ev \in Events :
        /\ ev.type = "Key" /\ ~ev.repeat
        /\ ev.logical_key = k /\ ev.state \in states
        /\ process_event(ev)
        /\ logical_keys'[k] = ev.state

\* the same for a MouseButton event for button k
ButtonEventFor(k, states) ==
    \E ev \in Events :
        /\ ev.type = "MouseButton"
        /\ ev.button = k /\ ev.state \in states
        /\ process_event(ev)
        /\ mouse_buttons'[k] = ev.state

\* C12 as stated: an entry is created only by a (non-repeat) Pressed event
\* for its key; a Released event for an absent key creates none.
C12_OnlyPressCreates ==
    [][ /\ \A k \in Created(physical_keys, physical_keys') :
              KeyEventFor(k, {"Pressed"})
        /\ \A k \in Created(logical_keys, logical_keys') :
              LogicalKeyEventFor(k, {"Pressed"})
        /\ \A k \in Created(mouse_buttons, mouse_buttons') :
              ButtonEventFor(k, {"Pressed"}) ]_vars

\* C12 as amended: an entry is created only by a non-repeat Key event (or a
\* MouseButton event) for its key, Pressed or Released, and starts in the
\* state the event carries; a Released event for an absent key creates an
\* entry in state Released.
C12_OnlyEventsCreate ==
    [][ /\ \A k \in Created(physical_keys, physical_keys') :
              KeyEventFor(k, EventStates)
        /\ \A k \in Created(logical_keys, logical_keys') :
              LogicalKeyEventFor(k, EventStates)
        /\ \A k \in Created(mouse_buttons, mouse_buttons') :
              ButtonEventFor(k, EventStates) ]_vars

\* right after new or clear and one event: entries in state Released
C12_Witness ==
    /\ lastOp = "process_event"
    /\ DOMAIN physical_keys = {"KeyA"}
    /\ physical_keys["KeyA"] = "Released"
    /\ DOMAIN logical_keys = {"Enter"}
    /\ logical_keys["Enter"] = "Released"
    /\ DOMAIN mouse_buttons = {}


----------------------------------------------------------------------------
(* Further properties of the scheduler *)

\* what the last tick put into the accumulator before draining
LastTickAccumulated ==
    LastTick.accumulated_before
    + (IF LastTick.elapsed > max_frame_time
       THEN max_frame_time ELSE LastTick.elapsed)

\* C13: with a = accumulated_before + min(elapsed, max_frame_time), a tick
\* returns 0 steps when a <= target_frame_time and ceil(a / target) - 1
\* steps otherwise (the least count that leaves no more than target), and
\* leaves a - steps * target accumulated; a = target triggers no step.
C13_StepCount ==
    Len(ticks) > 0 =>
        LET a == LastTickAccumulated
            n == LastTick.num_updates
            t == target_frame_time
        IN  /\ result.num_updates = n
            /\ n = IF a <= t THEN 0 ELSE ((a + t - 1) \div t) - 1
            /\ a - n * t <= t
            /\ n > 0 => a - (n - 1) * t > t
            /\ accumulated_time = a - n * t
            /\ a = t => n = 0

\* a tick that accumulated exactly twice the target and ran one step
C13_Witness ==
    /\ Len(ticks) > 0
    /\ LastTickAccumulated = 2 * target_frame_time
    /\ LastTick.num_updates = 1
    /\ accumulated_time = target_frame_time


RECURSIVE SumClamped(_)
\* the sum of min(elapsed, max_frame_time) over a sequence of ticks
SumClamped(s) ==
    IF s = << >> THEN 0
    ELSE (IF s[1].elapsed > max_frame_time
          THEN max_frame_time ELSE s[1].elapsed) + SumClamped(Tail(s))

\* C14: after any sequence of ticks, total_num_updates * target_frame_time
\* + accumulated_time is the sum of min(elapsed, max_frame_time) over the
\* ticks: time beyond max_frame_time is not carried into a later tick.
C14_TimeConservation ==
    total_num_updates * target_frame_time + accumulated_time
        = SumClamped(ticks)

\* a tick beyond max_frame_time, then a later tick, with steps run
C14_Witness ==
    /\ Len(ticks) >= 2
    /\ ticks[1].elapsed > max_frame_time
    /\ LastTick.elapsed > 0
    /\ total_num_updates >= 1
    /\ SumClamped(ticks) < SumElapsed(ticks)

\* C15: every tick returns num_updates with
\* num_updates * target_frame_time < target_frame_time + max_frame_time,
\* whatever the elapsed value and the history.
C15_BoundedCatchUp ==
    \A k \in 1..Len(ticks) :
        ticks[k].num_updates * target_frame_time
            < target_frame_time + max_frame_time

\* a stall far beyond max_frame_time on a full accumulator, its burst of
\* steps at least max_frame_time long
C15_Witness ==
    /\ Len(ticks) > 0
    /\ LastTick.elapsed > max_frame_time
    /\ LastTick.accumulated_before = target_frame_time
    /\ LastTick.num_updates * target_frame_time >= max_frame_time
    /\ LastTick.num_updates >= 2


\* C16: every call of update returns, also with target_frame_time = 0
\* (given to new or to set_target_frame_time), for every elapsed,
\* max_frame_time and accumulated_time; with a zero target the call returns
\* a non-finite blending factor (a quotient by zero).
C16_UpdateAlwaysReturns ==
    /\ ~inUpdate
    /\ (Len(ticks) > 0 /\ result.frame_time = 0) =>
          result.blending_factor.den = 0


\* the fields of GameLoop
gameLoopFields == <<target_frame_time, max_frame_time, accumulated_time,
                    total_num_updates, total_time_passed>>

\* C17: the total_num_updates a tick returns is the sum of the num_updates
\* of all ticks so far and never decreases; a step that is not a tick (a
\* call of run or run_result, or one of its callback invocations, however
\* it ends) leaves accumulated_time, total_num_updates and
\* total_time_passed as they are.
C17_TotalsIgnoreRun ==
    [][ /\ total_num_updates' = SumSteps(ticks')
        /\ total_num_updates' >= total_num_updates
        /\ Len(ticks') > 0 => result'.total_num_updates = SumSteps(ticks')
        /\ ticks' = ticks => UNCHANGED <<gameLoopFields, result>> ]_vars

\* after two or more ticks, a run that exited with steps left over: the
\* scheduler's total still counts every step the ticks returned
C17_Witness ==
    /\ Len(ticks) >= 2
    /\ ticks[1].num_updates >= 1
    /\ run.pc = "done"
    /\ run.res0.num_updates = LastTick.num_updates
    /\ Len(run.log) < LastTick.num_updates
    /\ total_num_updates = SumSteps(ticks)
    /\ result.total_num_updates = total_num_updates


\* C18: run and run_result never invoke the callback on an UpdateResult
\* whose exit flag is true at that moment: none after an invocation that
\* left exit true, and none at all when exit is true at the call.
C18_NoInvocationWhenExitSet ==
    run.pc # "idle" =>
        /\ \A k \in 1..(Len(run.log) - 1) : ~run.log[k].exit
        /\ run.res0.exit => Len(run.log) = 0


----------------------------------------------------------------------------
(* Further properties of the input tracker *)

\* map n is map m with the entry of k set to s and nothing else changed
SetOnly(m, n, k, s) ==
    /\ DOMAIN n = DOMAIN m \cup {k}
    /\ n[k] = s
    /\ \A x \in DOMAIN m \ {k} : n[x] = m[x]

C20_ScalarFieldsReplaced ==
    /\ mouse_scroll = <<0, 0>>
    /\ [][ /\ \A ev \in Events :
                /\ (ev.type = "Modifiers" /\ process_event(ev)) =>
                      /\ mods' = ev.mods
                      /\ UNCHANGED <<physical_keys, logical_keys,
                                     mouse_buttons, mouse_pos, mouse_scroll>>
                /\ (ev.type = "MouseMoved" /\ process_event(ev)) =>
                      /\ mouse_pos' = ev.pos
                      /\ UNCHANGED <<physical_keys, logical_keys,
                                     mouse_buttons, mods, mouse_scroll>>
                /\ (ev.type = "MouseScroll" /\ process_event(ev)) =>
                      /\ mouse_scroll' = ev.scroll
                      /\ UNCHANGED <<physical_keys, logical_keys,
                                     mouse_buttons, mods, mouse_pos>>
           /\ update_keys => UNCHANGED <<mods, mouse_pos, mouse_scroll>>
           /\ mouse_scroll' # mouse_scroll =>
                \/ clear /\ mouse_scroll' = <<0, 0>>
                \/ \E ev \in Events :
                      /\ ev.type = "MouseScroll"
                      /\ process_event(ev)
                      /\ mouse_scroll' = ev.scroll
       ]_vars

\* an aging pass has just run and the three fields still hold the values
\* that earlier events gave them
C20_Witness ==
    /\ lastOp = "update_keys"
    /\ mouse_scroll = <<1, -2>>
    /\ mouse_pos = <<3, 4>>
    /\ mods # KeyModsDefault
    /\ DOMAIN physical_keys # {}

====
